---- MODULE Spec2Model ----
(***************************************************************************)
(* RedisMutex (karimsa/warlock): a single-instance distributed lock on a   *)
(* Redis key.  Every process owns one RedisMutex object and calls withLock *)
(* or withOptimisticLock on it; forceResetLock may be called at any time.  *)
(* The store executes each command (SET .. PX .. NX, EVAL of the release   *)
(* script, DEL) atomically; a record disappears when its PX expiry is due. *)
(* A store call may also be rejected (connection failure): the command is  *)
(* then not executed and the awaiting call throws.                         *)
(***************************************************************************)
EXTENDS Integers, Sequences, FiniteSets, TLC

\* ---- bounds of the model ------------------------------------------------
NumProcs == 2
MaxTimeout == 2
MaxWait == 2
MaxSpin == 1
MaxAttemptsCap == 1
Horizon == 2
Slack == 1

\* ---- program constants --------------------------------------------------
DefaultSpinFloor == 10
MinTimerDelay == 1

Procs == 1..NumProcs
null == <<>>
Names == {"a", "a:b"}
Ids == {"c", "b:c"}
Results == {"r"}
WorkErrors == {"boom"}

Max(a, b) == IF a >= b THEN a ELSE b

\* the options a call of withOptimisticLock is given (<<>> is an option left out)
RetryOptions ==
    [maxWaitTime : (0 - MaxWait)..MaxWait,
     maxAttempts : {<<>>} \cup {<<n>> : n \in 1..MaxAttemptsCap},
     timeBetweenAttempts : {<<>>} \cup {<<n>> : n \in 0..MaxSpin}]
\* ... and those with a short retry loop
ShortOptions ==
    {o \in RetryOptions : o.maxWaitTime \in 0..1 /\ o.timeBetweenAttempts = <<1>>}

\* Longest time one optimistic call can need: the default spin time is the
\* largest delay, and the deadline check needs elapsed > maxWaitTime.
MaxDelay == Max(Max(MaxSpin, MinTimerDelay), Max(DefaultSpinFloor, MaxWait \div 2))
MaxTime == Slack + MaxWait + MaxDelay

VARIABLES
    now,        \* the wall clock, Date.now(), in ms
    store,      \* the Redis keyspace: key -> <<>> (absent) or <<value, expireAt>>
    mutex,      \* per process: its RedisMutex [name, id, timeout]
    pc,         \* per process: position of its call
    call,       \* per process: the call [kind, maxWaitTime, maxAttempts, timeBetweenAttempts]
    lockerId,   \* per process: the token its call holds (null before acquisition)
    start,      \* per process: `start` of #obtainLockOptimistically
    wakeAt,     \* per process: when the pending setTimeout is due
    attempts,   \* per process: number of #obtainLock calls made by the call
    offered,    \* per process: the lockerId of each of these calls, in order
    workRuns,   \* per process: number of times run() was invoked
    workOut,    \* per process: how run() settled
    released,   \* per process: the arguments of the #releaseLock invocations
    outcome,    \* per process: how the call settled
    failedAt,   \* per process: `elapsed` when the retry driver returned null
    lost        \* per process: how the record of its token disappeared, if not by release

vars == <<now, store, mutex, pc, call, lockerId, start, wakeAt,
          attempts, offered, workRuns, workOut, released, outcome, failedAt, lost>>

\* ---- pure helpers -------------------------------------------------------

\* getRedisKey(): `lock:${name}:${id}`
getRedisKey(m) == "lock:" \o m.name \o ":" \o m.id

Keys == {getRedisKey([name |-> n, id |-> i, timeout |-> 1]) : n \in Names, i \in Ids}

Absent == <<>>
Value(rec) == rec[1]
ExpireAt(rec) == rec[2]

\* SET without NX: the key is overwritten
SetOverwrite(rec, value, px, t) == <<value, t + px>>
\* a SET that renews the expiry of a key it finds set
SetRefresh(rec, value, px, t) == IF rec = Absent THEN <<value, t + px>> ELSE <<Value(rec), t + px>>
\* SET key value PX px NX: new content of the key
SetNX(rec, value, px, t) == IF rec = Absent THEN <<value, t + px>> ELSE rec
\* a reply that is always "OK"
SetReplyAlwaysOk(rec) == TRUE
\* ... and its reply: "OK" (TRUE) when the key was set, nil (FALSE) otherwise
SetNXReply(rec) == rec = Absent

\* a release that deletes without comparing
ReleaseNoCompare(rec, arg) == Absent
\* a release whose script never deletes
ReleaseNoDelete(rec, arg) == rec
\* the release script: if get(KEYS[1]) == ARGV[1] then del(KEYS[1])
ReleaseScript(rec, arg) == IF rec # Absent /\ Value(rec) = arg THEN Absent ELSE rec

\* a DEL that spares the record
DelKeep(rec) == rec
\* DEL key
Del(rec) == Absent

\* the default taken with || for ??: a timeBetweenAttempts of 0 counts as left out
spinTimeFalsy(timeBetweenAttempts, maxWaitTime) ==
    IF timeBetweenAttempts # <<>> /\ timeBetweenAttempts[1] # 0
    THEN timeBetweenAttempts[1]
    ELSE Max(DefaultSpinFloor, maxWaitTime \div 2)
\* timeBetweenAttempts ?? Math.max(10, Math.floor(maxWaitTime / 2))
spinTime(timeBetweenAttempts, maxWaitTime) ==
    IF timeBetweenAttempts # <<>>
    THEN timeBetweenAttempts[1]
    ELSE Max(DefaultSpinFloor, maxWaitTime \div 2)

\* setTimeout(resolve, ms): a delay below 1 ms is run as 1 ms
TimerDelay(ms) == IF ms < MinTimerDelay THEN MinTimerDelay ELSE ms

\* an acquisition error with name and id swapped
AcquisitionErrorSwapped(m) == [type |-> "RedisMutexAcquisitionError", lockName |-> m.id, lockId |-> m.name, value |-> ""]
\* new RedisMutexAcquisitionError({ lockName, lockId })
AcquisitionError(m) == [type |-> "RedisMutexAcquisitionError", lockName |-> m.name, lockId |-> m.id, value |-> ""]
StoreError == [type |-> "StoreError", lockName |-> "", lockId |-> "", value |-> ""]
WorkError(e) == [type |-> "WorkError", lockName |-> "", lockId |-> "", value |-> e]
Returned(r) == [type |-> "return", lockName |-> "", lockId |-> "", value |-> r]
Pending == [type |-> "pending", lockName |-> "", lockId |-> "", value |-> ""]

NoOptions == [maxWaitTime |-> 0, maxAttempts |-> <<>>, timeBetweenAttempts |-> <<>>]
NoCall == [kind |-> "none", options |-> NoOptions]

\* ---- initial state ------------------------------------------------------
LockName == "a"
LockId == "c"

InitCalls ==
    /\ now = 0
    /\ pc = [p \in Procs |-> "idle"]
    /\ call = [p \in Procs |-> NoCall]
    /\ lockerId = [p \in Procs |-> null]
    /\ start = [p \in Procs |-> 0]
    /\ wakeAt = [p \in Procs |-> 0]
    /\ attempts = [p \in Procs |-> 0]
    /\ offered = [p \in Procs |-> <<>>]
    /\ workRuns = [p \in Procs |-> 0]
    /\ workOut = [p \in Procs |-> Pending]
    /\ released = [p \in Procs |-> <<>>]
    /\ outcome = [p \in Procs |-> Pending]
    /\ failedAt = [p \in Procs |-> 0]
    /\ lost = [p \in Procs |-> "no"]

\* All processes construct their mutex on the same name and id; the store is empty.
Init ==
    /\ InitCalls
    /\ store = [k \in Keys |-> Absent]
    /\ mutex \in [Procs -> [name : {LockName}, id : {LockId}, timeout : 1..MaxTimeout]]

\* ---- operations ---------------------------------------------------------

\* one lockerId per mutex object, minted once
uuidv4Once(p, n) == <<p, 0>>
\* uuidv4(): a value no other call of uuidv4 returns
uuidv4(p, n) == <<p, n>>

\* the processes whose token is the value of record rec
Holders(rec) == {q \in Procs : rec # Absent /\ lockerId[q] = Value(rec) /\ pc[q] \in {"work", "release"}}

\* withLock(run): entry, up to the store call of #obtainLock
CallWithLock(p) ==
    /\ pc[p] = "idle"
    /\ call' = [call EXCEPT ![p] = [kind |-> "withLock", options |-> NoOptions]]
    /\ pc' = [pc EXCEPT ![p] = "obtain"]
    /\ UNCHANGED <<now, store, mutex, lockerId, start, wakeAt, attempts, offered,
                   workRuns, workOut, released, outcome, failedAt, lost>>

\* a retry loop that checks its deadline before the first attempt
CallDeadlineFirst(p, options) ==
    /\ pc[p] = "idle"
    /\ call' = [call EXCEPT ![p] = [kind |-> "withOptimisticLock", options |-> options]]
    /\ start' = [start EXCEPT ![p] = now]
    /\ IF 0 > options.maxWaitTime
       THEN /\ outcome' = [outcome EXCEPT ![p] = AcquisitionError(mutex[p])]
            /\ pc' = [pc EXCEPT ![p] = "done"]
       ELSE /\ pc' = [pc EXCEPT ![p] = "obtain"]
            /\ UNCHANGED outcome
    /\ UNCHANGED <<now, store, mutex, lockerId, wakeAt, attempts, offered,
                   workRuns, workOut, released, failedAt, lost>>

\* withOptimisticLock(run, options): entry, #obtainLockOptimistically up to the first attempt
CallWithOptimisticLock(p, options) ==
    /\ pc[p] = "idle"
    /\ call' = [call EXCEPT ![p] = [kind |-> "withOptimisticLock", options |-> options]]
    /\ start' = [start EXCEPT ![p] = now]
    /\ pc' = [pc EXCEPT ![p] = "obtain"]
    /\ UNCHANGED <<now, store, mutex, lockerId, wakeAt, attempts, offered,
                   workRuns, workOut, released, outcome, failedAt, lost>>

\* an #obtainLock that catches the store's failure and reports the lock as busy
ObtainCatch(p, reply) ==
    LET lockKey == getRedisKey(mutex[p])
        id == uuidv4(p, attempts[p] + 1)
        result == reply # "rejected" /\ SetNXReply(store[lockKey])
    IN  /\ pc[p] = "obtain"
        /\ attempts' = [attempts EXCEPT ![p] = @ + 1]
        /\ offered' = [offered EXCEPT ![p] = Append(@, id)]
        /\ IF reply = "rejected"
           THEN UNCHANGED store
           ELSE store' = [store EXCEPT ![lockKey] = SetNX(@, id, mutex[p].timeout, now)]
        /\ IF result
           THEN /\ lockerId' = [lockerId EXCEPT ![p] = id]
                /\ workRuns' = [workRuns EXCEPT ![p] = @ + 1]
                /\ pc' = [pc EXCEPT ![p] = "work"]
                /\ UNCHANGED outcome
           ELSE IF call[p].kind = "withLock"
                THEN /\ outcome' = [outcome EXCEPT ![p] = AcquisitionError(mutex[p])]
                     /\ pc' = [pc EXCEPT ![p] = "done"]
                     /\ UNCHANGED <<lockerId, workRuns>>
                ELSE /\ pc' = [pc EXCEPT ![p] = "elapsed"]
                     /\ UNCHANGED <<lockerId, workRuns, outcome>>
        /\ UNCHANGED <<now, mutex, call, start, wakeAt, workOut, released, failedAt, lost>>

\* #obtainLock: the store executes SET lockKey lockerId PX timeout NX (or rejects
\* the call), then the caller's branch on the result, up to its next await.
Obtain(p, reply) ==
    LET lockKey == getRedisKey(mutex[p])
        id == uuidv4(p, attempts[p] + 1)
        result == SetNXReply(store[lockKey])
    IN  /\ pc[p] = "obtain"
        /\ attempts' = [attempts EXCEPT ![p] = @ + 1]
        /\ offered' = [offered EXCEPT ![p] = Append(@, id)]
        /\ IF reply = "rejected"
           THEN /\ outcome' = [outcome EXCEPT ![p] = StoreError]
                /\ pc' = [pc EXCEPT ![p] = "done"]
                /\ UNCHANGED <<store, lockerId, workRuns>>
           ELSE /\ store' = [store EXCEPT ![lockKey] = SetNX(@, id, mutex[p].timeout, now)]
                /\ IF result
                   THEN /\ lockerId' = [lockerId EXCEPT ![p] = id]
                        /\ workRuns' = [workRuns EXCEPT ![p] = @ + 1]
                        /\ pc' = [pc EXCEPT ![p] = "work"]
                        /\ UNCHANGED outcome
                   ELSE IF call[p].kind = "withLock"
                        THEN /\ outcome' = [outcome EXCEPT ![p] = AcquisitionError(mutex[p])]
                             /\ pc' = [pc EXCEPT ![p] = "done"]
                             /\ UNCHANGED <<lockerId, workRuns>>
                        ELSE /\ pc' = [pc EXCEPT ![p] = "elapsed"]
                             /\ UNCHANGED <<lockerId, workRuns, outcome>>
        /\ UNCHANGED <<now, mutex, call, start, wakeAt, workOut, released, failedAt, lost>>

ObtainLock(p) == \E reply \in {"ok", "rejected"} : Obtain(p, reply)

\* a deadline check with >= for >
DeadlineReached(elapsed, maxWaitTime) == elapsed >= maxWaitTime
\* a deadline check one millisecond late
DeadlineLate(elapsed, maxWaitTime) == elapsed > maxWaitTime + 1
\* elapsed > maxWaitTime
DeadlinePassed(elapsed, maxWaitTime) == elapsed > maxWaitTime

\* #obtainLockOptimistically after a failed attempt: the deadline check, then
\* either return null (and the wrapper throws) or arm the timer.
CheckElapsed(p) ==
    LET elapsed == now - start[p]
        options == call[p].options
    IN  /\ pc[p] = "elapsed"
        /\ IF DeadlinePassed(elapsed, options.maxWaitTime)
           THEN /\ failedAt' = [failedAt EXCEPT ![p] = elapsed]
                /\ outcome' = [outcome EXCEPT ![p] = AcquisitionError(mutex[p])]
                /\ pc' = [pc EXCEPT ![p] = "done"]
                /\ UNCHANGED wakeAt
           ELSE /\ wakeAt' = [wakeAt EXCEPT ![p] =
                        now + TimerDelay(spinTime(options.timeBetweenAttempts, options.maxWaitTime))]
                /\ pc' = [pc EXCEPT ![p] = "sleep"]
                /\ UNCHANGED <<failedAt, outcome>>
        /\ UNCHANGED <<now, store, mutex, call, lockerId, start, attempts, offered,
                       workRuns, workOut, released, lost>>

\* the timer of the retry loop fires: the loop starts its next attempt
Wake(p) ==
    /\ pc[p] = "sleep"
    /\ now >= wakeAt[p]
    /\ pc' = [pc EXCEPT ![p] = "obtain"]
    /\ wakeAt' = [wakeAt EXCEPT ![p] = 0]
    /\ UNCHANGED <<now, store, mutex, call, lockerId, start, attempts, offered,
                   workRuns, workOut, released, outcome, failedAt, lost>>

\* run() settles; release is invoked after a normal return only (no finally)
FinishWorkNoFinally(p) ==
    /\ pc[p] = "work"
    /\ \E o \in {Returned(r) : r \in Results} \cup {WorkError(e) : e \in WorkErrors} :
            /\ workOut' = [workOut EXCEPT ![p] = o]
            /\ IF o.type = "return"
               THEN /\ released' = [released EXCEPT ![p] = Append(@, lockerId[p])]
                    /\ pc' = [pc EXCEPT ![p] = "release"]
                    /\ UNCHANGED outcome
               ELSE /\ outcome' = [outcome EXCEPT ![p] = o]
                    /\ pc' = [pc EXCEPT ![p] = "done"]
                    /\ UNCHANGED released
    /\ UNCHANGED <<now, store, mutex, call, lockerId, start, wakeAt, attempts, offered,
                   workRuns, failedAt, lost>>

\* run() settles (returns or throws); the finally block invokes #releaseLock(lockerId)
FinishWork(p) ==
    /\ pc[p] = "work"
    /\ \E o \in {Returned(r) : r \in Results} \cup {WorkError(e) : e \in WorkErrors} :
            workOut' = [workOut EXCEPT ![p] = o]
    /\ released' = [released EXCEPT ![p] = Append(@, lockerId[p])]
    /\ pc' = [pc EXCEPT ![p] = "release"]
    /\ UNCHANGED <<now, store, mutex, call, lockerId, start, wakeAt, attempts, offered,
                   workRuns, outcome, failedAt, lost>>

\* a release in a catch-all: the wrapper settles without run()'s failure
ReleaseSwallow(p, reply) ==
    LET lockKey == getRedisKey(mutex[p])
    IN  /\ pc[p] = "release"
        /\ IF reply = "rejected"
           THEN /\ outcome' = [outcome EXCEPT ![p] = StoreError]
                /\ UNCHANGED store
           ELSE /\ store' = [store EXCEPT ![lockKey] = ReleaseScript(@, lockerId[p])]
                /\ outcome' = [outcome EXCEPT ![p] =
                        IF workOut[p].type = "return" THEN workOut[p] ELSE Returned("")]
        /\ pc' = [pc EXCEPT ![p] = "done"]
        /\ UNCHANGED <<now, mutex, call, lockerId, start, wakeAt, attempts, offered,
                       workRuns, workOut, released, failedAt, lost>>

\* a release that ignores the failure of its store call
ReleaseQuiet(p, reply) ==
    LET lockKey == getRedisKey(mutex[p])
    IN  /\ pc[p] = "release"
        /\ IF reply = "rejected"
           THEN UNCHANGED store
           ELSE store' = [store EXCEPT ![lockKey] = ReleaseScript(@, lockerId[p])]
        /\ outcome' = [outcome EXCEPT ![p] = workOut[p]]
        /\ pc' = [pc EXCEPT ![p] = "done"]
        /\ UNCHANGED <<now, mutex, call, lockerId, start, wakeAt, attempts, offered,
                       workRuns, workOut, released, failedAt, lost>>

\* a release that fails when the record is not the caller's any more
ReleaseStrict(p, reply) ==
    LET lockKey == getRedisKey(mutex[p])
    IN  /\ pc[p] = "release"
        /\ IF reply = "rejected"
           THEN /\ outcome' = [outcome EXCEPT ![p] = StoreError]
                /\ UNCHANGED store
           ELSE /\ store' = [store EXCEPT ![lockKey] = ReleaseScript(@, lockerId[p])]
                /\ outcome' = [outcome EXCEPT ![p] =
                        IF store[lockKey] # Absent /\ Value(store[lockKey]) = lockerId[p]
                        THEN workOut[p]
                        ELSE [type |-> "LockLostError", lockName |-> "", lockId |-> "", value |-> ""]]
        /\ pc' = [pc EXCEPT ![p] = "done"]
        /\ UNCHANGED <<now, mutex, call, lockerId, start, wakeAt, attempts, offered,
                       workRuns, workOut, released, failedAt, lost>>

\* #releaseLock: the store executes the script (or rejects the call); the
\* wrapper then settles with run()'s outcome, or with the failure of the release.
Release(p, reply) ==
    LET lockKey == getRedisKey(mutex[p])
    IN  /\ pc[p] = "release"
        /\ IF reply = "rejected"
           THEN /\ outcome' = [outcome EXCEPT ![p] = StoreError]
                /\ UNCHANGED store
           ELSE /\ store' = [store EXCEPT ![lockKey] = ReleaseScript(@, lockerId[p])]
                /\ outcome' = [outcome EXCEPT ![p] = workOut[p]]
        /\ pc' = [pc EXCEPT ![p] = "done"]
        /\ UNCHANGED <<now, mutex, call, lockerId, start, wakeAt, attempts, offered,
                       workRuns, workOut, released, failedAt, lost>>

ReleaseLock(p) == \E reply \in {"ok", "rejected"} : Release(p, reply)

\* forceResetLock(): DEL of the mutex's key
ForceResetLock(p) ==
    LET lockKey == getRedisKey(mutex[p])
    IN  /\ store[lockKey] # Absent
        /\ store' = [store EXCEPT ![lockKey] = Del(@)]
        /\ lost' = [q \in Procs |-> IF q \in Holders(store[lockKey]) THEN "reset" ELSE lost[q]]
        /\ UNCHANGED <<now, mutex, pc, call, lockerId, start, wakeAt, attempts, offered,
                       workRuns, workOut, released, outcome, failedAt>>

\* records that outlive their PX expiry by a millisecond
ExpireLate(st, t) == [k \in DOMAIN st |-> IF st[k] # Absent /\ ExpireAt(st[k]) < t THEN Absent ELSE st[k]]
\* the records whose PX expiry is due at time t disappear
Expire(st, t) == [k \in DOMAIN st |-> IF st[k] # Absent /\ ExpireAt(st[k]) <= t THEN Absent ELSE st[k]]

\* one millisecond passes (the model's clock stops at `limit`)
Tick(limit) ==
    /\ now < limit
    /\ now' = now + 1
    /\ store' = Expire(store, now + 1)
    /\ lost' = [q \in Procs |->
                  IF \E k \in Keys : q \in Holders(store[k]) /\ store'[k] = Absent
                  THEN "expired" ELSE lost[q]]
    /\ UNCHANGED <<mutex, pc, call, lockerId, start, wakeAt, attempts, offered,
                   workRuns, workOut, released, outcome, failedAt>>

Pass == Tick(Horizon)

Next ==
    \/ \E p \in Procs : CallWithLock(p)
    \/ \E p \in Procs : \E o \in ShortOptions : CallWithOptimisticLock(p, o)
    \/ \E p \in Procs : ObtainLock(p)
    \/ \E p \in Procs : CheckElapsed(p)
    \/ \E p \in Procs : Wake(p)
    \/ \E p \in Procs : FinishWork(p)
    \/ \E p \in Procs : ReleaseLock(p)
    \/ \E p \in Procs : ForceResetLock(p)
    \/ Pass

Spec == Init /\ [][Next]_vars

\* ---- properties ---------------------------------------------------------
KeyOf(p) == getRedisKey(mutex[p])
IsAcquisitionError(o) == o.type = "RedisMutexAcquisitionError"
Working == {p \in Procs : pc[p] = "work"}

\* C1: a release called with token T changes the store only when the record's
\* value is T, and then by deleting that record; a release with any other token
\* (a stale one) leaves every record, value and expiry, as it was.
C1_ReleaseOnlyOwnRecord ==
    [][\A p \in Procs :
          (pc[p] = "release" /\ pc'[p] = "done") =>
              /\ released[p] = <<lockerId[p]>>
              /\ \A k \in Keys :
                    store'[k] # store[k] =>
                        /\ k = KeyOf(p)
                        /\ store[k] # Absent
                        /\ Value(store[k]) = released[p][1]
                        /\ store'[k] = Absent]_vars

\* a stale release has run: p's record expired, q reacquired the key and is
\* still working, p's release completed and q's record is in the store
C1_Witness ==
    \E p, q \in Procs :
        /\ p # q
        /\ pc[p] = "done" /\ lost[p] = "expired" /\ outcome[p].type = "return"
        /\ pc[q] = "work" /\ lost[q] = "no"
        /\ store[KeyOf(q)] # Absent /\ Value(store[KeyOf(q)]) = lockerId[q]

\* C2 (as stated): at most one process executes its work on a key at any time.
C2_AtMostOneWorking ==
    \A p, q \in Working : KeyOf(p) = KeyOf(q) => p = q

\* C2 (amended): a process executing its work holds the record of its key unless
\* that record expired or was force-reset during the work; so two processes
\* work on one key at the same time only after such a loss.
C2_ExclusiveWhileHeld ==
    /\ \A p \in Working :
          lost[p] = "no" =>
              /\ store[KeyOf(p)] # Absent
              /\ Value(store[KeyOf(p)]) = lockerId[p]
    /\ \A p, q \in Working :
          (p # q /\ KeyOf(p) = KeyOf(q)) => (lost[p] # "no" \/ lost[q] # "no")

\* p is in its work holding the record while q's retry loop was just refused
C2_Witness ==
    \E p, q \in Procs :
        /\ pc[p] = "work" /\ lost[p] = "no"
        /\ pc[q] = "elapsed" /\ KeyOf(p) = KeyOf(q)

\* C3: an attempt whose SET was executed returns a token iff the key had no
\* record; the winner's token and expiry become the record, a loser changes
\* nothing; the value of a record is the token of exactly one attempt.
C3_AcquireIffAbsent ==
    [][/\ \A p \in Procs :
            (pc[p] = "obtain" /\ pc'[p] # "obtain" /\ outcome'[p] # StoreError) =>
                LET k == KeyOf(p) IN
                /\ (lockerId'[p] # null) <=> (store[k] = Absent)
                /\ IF store[k] = Absent
                   THEN store' = [store EXCEPT ![k] = <<lockerId'[p], now + mutex[p].timeout>>]
                   ELSE store' = store /\ lockerId'[p] = null
       /\ \A k \in Keys :
            store'[k] # Absent =>
                Cardinality({p \in Procs : lockerId'[p] = Value(store'[k])}) = 1]_vars

\* one attempt won the free key, a concurrent withLock attempt got null
C3_Witness ==
    \E p, q \in Procs :
        /\ pc[p] = "work" /\ lost[p] = "no"
        /\ pc[q] = "done" /\ call[q].kind = "withLock" /\ attempts[q] = 1
        /\ IsAcquisitionError(outcome[q]) /\ KeyOf(p) = KeyOf(q)

\* C4: a call invokes release at most once and only with its own token; when it
\* has settled, release was invoked exactly once if it acquired the lock and
\* never if it did not, whether the work returned or failed.
C4_ReleaseExactlyOnce ==
    \A p \in Procs :
        /\ released[p] \in {<<>>, <<lockerId[p]>>}
        /\ lockerId[p] = null => released[p] = <<>>
        /\ pc[p] \in {"idle", "obtain", "elapsed", "sleep", "work"} => released[p] = <<>>
        /\ (pc[p] = "done" /\ lockerId[p] # null) => released[p] = <<lockerId[p]>>

\* a withOptimisticLock call whose work failed has settled after one release
C4_Witness ==
    \E p \in Procs :
        /\ pc[p] = "done" /\ call[p].kind = "withOptimisticLock"
        /\ workOut[p].type = "WorkError" /\ released[p] = <<lockerId[p]>>

\* C5: a call whose acquisition fails (withLock on a key with a record, or the
\* retry loop past its deadline) settles with the acquisition error carrying
\* the mutex's name and id; its work never ran, it invoked no release, and the
\* step that failed it left the store unchanged.
C5_FailureLeavesAll ==
    [][\A p \in Procs :
          /\ (pc[p] = "obtain" /\ pc'[p] # "obtain" /\ call[p].kind = "withLock"
                /\ store[KeyOf(p)] # Absent /\ outcome'[p] # StoreError) =>
                    IsAcquisitionError(outcome'[p])
          /\ (pc[p] = "elapsed" /\ pc'[p] = "done") => IsAcquisitionError(outcome'[p])
          /\ IsAcquisitionError(outcome'[p]) =>
                /\ pc'[p] = "done"
                /\ outcome'[p].lockName = mutex[p].name
                /\ outcome'[p].lockId = mutex[p].id
                /\ workRuns'[p] = 0
                /\ released'[p] = <<>>
                /\ lockerId'[p] = null
                /\ (~IsAcquisitionError(outcome[p]) => store' = store)]_vars

\* a retry loop has failed past its deadline while the holder still works
C5_Witness ==
    \E p, q \in Procs :
        /\ pc[p] = "work" /\ lost[p] = "no" /\ store[KeyOf(p)] # Absent
        /\ pc[q] = "done" /\ call[q].kind = "withOptimisticLock" /\ attempts[q] = 2
        /\ IsAcquisitionError(outcome[q]) /\ KeyOf(p) = KeyOf(q)

\* C6 (as stated): a withLock call that acquired the free key and returns has
\* run the work once, returns the work's result, and at its return the key has
\* no record.
C6_AbsentAtReturn ==
    [][\A p \in Procs :
          (pc[p] = "release" /\ pc'[p] = "done" /\ call[p].kind = "withLock"
                /\ outcome'[p].type = "return") =>
              /\ workRuns'[p] = 1
              /\ outcome'[p] = workOut[p]
              /\ store'[KeyOf(p)] = Absent]_vars

\* C6 (amended): withLock on a key with no record runs the work exactly once;
\* when the release's store call succeeds the call settles with the work's
\* outcome and the key then holds no record of this call: it is absent, unless
\* the call's record expired or was force-reset during the work and another
\* process has acquired the key since, whose record is left as it is.
C6_OwnRecordGoneAtReturn ==
    [][\A p \in Procs :
          /\ (pc[p] = "obtain" /\ pc'[p] # "obtain" /\ call[p].kind = "withLock"
                /\ store[KeyOf(p)] = Absent /\ outcome'[p] # StoreError) =>
                    (pc'[p] = "work" /\ workRuns'[p] = 1)
          /\ (pc[p] = "release" /\ pc'[p] = "done" /\ call[p].kind = "withLock") =>
                /\ workRuns'[p] = 1
                /\ outcome'[p] # StoreError =>
                      /\ outcome'[p] = workOut[p]
                      /\ \/ store'[KeyOf(p)] = Absent
                         \/ /\ lost[p] # "no"
                            /\ Value(store'[KeyOf(p)]) # lockerId[p]
                            /\ store' = store]_vars

\* a withLock call has returned the work's result and the key is free
C6_Witness ==
    \E p \in Procs :
        /\ pc[p] = "done" /\ call[p].kind = "withLock" /\ workRuns[p] = 1
        /\ outcome[p] \in {Returned(r) : r \in Results}
        /\ lost[p] = "no" /\ store[KeyOf(p)] = Absent

\* C7 (as stated): when the work failed, release has been invoked, at the
\* call's return the key has no record, and the call fails with the work's failure.
C7_WorkFailureUnchanged ==
    [][\A p \in Procs :
          (pc[p] = "release" /\ pc'[p] = "done" /\ workOut[p].type = "WorkError") =>
              /\ released[p] = <<lockerId[p]>>
              /\ store'[KeyOf(p)] = Absent
              /\ outcome'[p] = workOut[p]]_vars

\* C7 (amended): when the work fails, release is invoked before the call
\* settles; if the release's store call succeeds the call fails with the work's
\* own failure and the key holds no record of this call (absent, unless another
\* process acquired it after the call's record expired or was force-reset); if
\* the release's store call fails, the call fails with that store failure and
\* the store is unchanged.
C7_ReleaseThenWorkFailure ==
    [][\A p \in Procs :
          /\ (pc[p] = "work" /\ pc'[p] # "work") =>
                (pc'[p] = "release" /\ released'[p] = <<lockerId[p]>>)
          /\ (pc[p] = "release" /\ pc'[p] = "done" /\ workOut[p].type = "WorkError") =>
                /\ released[p] = <<lockerId[p]>>
                /\ IF outcome'[p] = StoreError
                   THEN store' = store
                   ELSE /\ outcome'[p] = workOut[p]
                        /\ \/ store'[KeyOf(p)] = Absent
                           \/ /\ lost[p] # "no"
                              /\ Value(store'[KeyOf(p)]) # lockerId[p]
                              /\ store' = store
          /\ (pc'[p] = "done" /\ workOut'[p].type = "WorkError") =>
                /\ released'[p] = <<lockerId'[p]>>
                /\ outcome'[p] \in {workOut'[p], StoreError}]_vars

\* a call whose work failed has released its record and fails with the work's failure
C7_Witness ==
    \E p \in Procs :
        /\ pc[p] = "done" /\ workOut[p].type = "WorkError" /\ outcome[p] = workOut[p]
        /\ released[p] = <<lockerId[p]>> /\ lost[p] = "no" /\ store[KeyOf(p)] = Absent

\* C8: a call given maxAttempts = n makes at most n acquisition attempts.
C8_AttemptsCapped ==
    \A p \in Procs :
        call[p].options.maxAttempts # <<>> => attempts[p] <= call[p].options.maxAttempts[1]

\* the time the retry loop sleeps between two attempts
SleepTime(options) ==
    IF options.timeBetweenAttempts # <<>>
    THEN Max(1, options.timeBetweenAttempts[1])
    ELSE Max(10, options.maxWaitTime \div 2)

ForeignToken == uuidv4(0, 0)

\* The record of the key belongs to another party and does not expire within
\* the model's time.
InitHeld ==
    /\ InitCalls
    /\ mutex \in [Procs -> [name : {LockName}, id : {LockId}, timeout : 1..MaxTimeout]]
    /\ store = [k \in Keys |->
                  IF k = getRedisKey([name |-> LockName, id |-> LockId])
                  THEN <<ForeignToken, MaxTime + 1>> ELSE Absent]

\* p has a step that takes no time: a store call, the check after it, a due timer
Instant(p) == pc[p] \in {"obtain", "elapsed"} \/ (pc[p] = "sleep" /\ now >= wakeAt[p])

\* calls start while the model's clock leaves them the time to finish
TimedCall(p) == now <= Slack /\ \E o \in RetryOptions : CallWithOptimisticLock(p, o)
TimedObtain(p) == Obtain(p, "ok")
\* a millisecond passes once every process is waiting for its timer
TimedPass == (\A p \in Procs : ~Instant(p)) /\ Tick(MaxTime)

NextHeld ==
    \/ \E p \in Procs : TimedCall(p)
    \/ \E p \in Procs : TimedObtain(p)
    \/ \E p \in Procs : CheckElapsed(p)
    \/ \E p \in Procs : Wake(p)
    \/ TimedPass

\* The event loop runs every ready continuation and every due timer, and the
\* clock advances.
SpecHeld ==
    /\ InitHeld /\ [][NextHeld]_vars
    /\ \A p \in Procs : WF_vars(TimedObtain(p) \/ CheckElapsed(p) \/ Wake(p))
    /\ WF_vars(TimedPass)

\* C10 (as stated): with the key held throughout, a call given a maxWaitTime
\* of at least 0 and a timeBetweenAttempts fails at an elapsed time of at most
\* maxWaitTime + timeBetweenAttempts.
C10_FailsWithinWaitPlusSpin ==
    \A p \in Procs :
        (pc[p] = "done" /\ call[p].options.timeBetweenAttempts # <<>>
            /\ call[p].options.maxWaitTime >= 0) =>
            failedAt[p] <= call[p].options.maxWaitTime + call[p].options.timeBetweenAttempts[1]

\* the latest elapsed time at which a retry loop on a held key attempts and fails
FailBound(options) == Max(0, options.maxWaitTime) + SleepTime(options)

\* C10 (amended): with the key held throughout, every withOptimisticLock call
\* ends with the acquisition error, for every maxWaitTime and
\* timeBetweenAttempts; it makes no attempt and reports no failure later than
\* max(0, maxWaitTime) + d after its start, d being the time slept between
\* attempts (timeBetweenAttempts, 1 ms when that is 0, the default when unset).
C10_FailsWithinBound ==
    /\ \A p \in Procs :
          (pc[p] # "idle") ~> (pc[p] = "done" /\ IsAcquisitionError(outcome[p]))
    /\ [](\A p \in Procs :
            /\ pc[p] = "done" =>
                  /\ IsAcquisitionError(outcome[p])
                  /\ failedAt[p] <= FailBound(call[p].options)
            /\ pc[p] = "obtain" => now - start[p] <= FailBound(call[p].options))

\* a call with timeBetweenAttempts = 0 has failed exactly at the bound
C10_Witness ==
    \E p \in Procs :
        /\ pc[p] = "done" /\ call[p].options.timeBetweenAttempts = <<0>>
        /\ call[p].options.maxWaitTime >= 0
        /\ IsAcquisitionError(outcome[p])
        /\ failedAt[p] = call[p].options.maxWaitTime + 1

\* ---- waiting for a key that another party holds for a while ---------------

\* The record of the key belongs to another party and expires after at most
\* MaxTimeout.
InitWait ==
    /\ InitCalls
    /\ mutex \in [Procs -> [name : {LockName}, id : {LockId}, timeout : 1..MaxTimeout]]
    /\ \E e \in 1..MaxTimeout :
          store = [k \in Keys |->
                     IF k = getRedisKey([name |-> LockName, id |-> LockId])
                     THEN <<ForeignToken, e>> ELSE Absent]

\* the calls that leave maxAttempts out
UncappedOptions == {o \in RetryOptions : o.maxAttempts = <<>>}
WaitCall(p) == now <= Slack /\ \E o \in UncappedOptions : CallWithOptimisticLock(p, o)

\* Exact timers and instantaneous store calls; the holder's record goes by
\* expiry or by forceResetLock at any instant; a process that acquired stays
\* in its work.
NextWait ==
    \/ \E p \in Procs : WaitCall(p)
    \/ \E p \in Procs : TimedObtain(p)
    \/ \E p \in Procs : CheckElapsed(p)
    \/ \E p \in Procs : Wake(p)
    \/ \E p \in Procs : ForceResetLock(p)
    \/ TimedPass

SpecWait ==
    /\ InitWait /\ [][NextWait]_vars
    /\ \A p \in Procs : WF_vars(TimedObtain(p) \/ CheckElapsed(p) \/ Wake(p))
    /\ WF_vars(TimedPass)

\* C11: a withOptimisticLock call fails only after at least one acquisition
\* attempt, whatever maxWaitTime (zero, negative) and timeBetweenAttempts are;
\* its first attempt on a free key acquires the lock and starts the work.
C11_AttemptBeforeFailure ==
    [][\A p \in Procs :
          /\ (call'[p].kind = "withOptimisticLock" /\ IsAcquisitionError(outcome'[p])) =>
                attempts'[p] >= 1
          /\ (pc[p] = "idle" /\ pc'[p] # "idle") => (pc'[p] = "obtain" /\ attempts'[p] = 0)
          /\ (pc[p] = "obtain" /\ pc'[p] # "obtain" /\ attempts[p] = 0
                /\ store[KeyOf(p)] = Absent) =>
                    /\ pc'[p] = "work" /\ workRuns'[p] = 1
                    /\ lockerId'[p] # null /\ attempts'[p] = 1]_vars

\* with a negative maxWaitTime one call failed after its single attempt and
\* another acquired the free key at its first attempt
C11_Witness ==
    \E p, q \in Procs :
        /\ pc[q] = "done" /\ IsAcquisitionError(outcome[q]) /\ attempts[q] = 1
        /\ call[q].options.maxWaitTime < 0
        /\ pc[p] = "work" /\ attempts[p] = 1 /\ call[p].options.maxWaitTime < 0
        /\ call[p].options.timeBetweenAttempts = <<MaxSpin>>

\* C12 (as stated): when the key is free while a retry loop given
\* timeBetweenAttempts sleeps, the loop's next attempt comes at most
\* timeBetweenAttempts later.
C12_NextAttemptWithinSpin ==
    \A p \in Procs :
        (pc[p] = "sleep" /\ store[KeyOf(p)] = Absent
            /\ call[p].options.timeBetweenAttempts # <<>>) =>
                wakeAt[p] - now <= call[p].options.timeBetweenAttempts[1]

\* C12 (amended): with exact timers and instantaneous store calls, a retry loop
\* that is waiting when the key becomes free makes its next attempt at most d
\* later, d being the time slept between attempts (timeBetweenAttempts, 1 ms
\* when that is 0, the default when unset); that attempt acquires the lock and
\* starts the work unless another process took the key first; the loop reports
\* failure only at the instant of an attempt that found the key held, later
\* than maxWaitTime after its start.
C12_AcquiresAtNextAttempt ==
    /\ [](\A p \in Procs :
            pc[p] = "sleep" =>
                /\ now <= wakeAt[p]
                /\ store[KeyOf(p)] = Absent =>
                      wakeAt[p] - now <= SleepTime(call[p].options))
    /\ [][\A p \in Procs :
            /\ (pc[p] = "obtain" /\ pc'[p] # "obtain" /\ store[KeyOf(p)] = Absent) =>
                  (pc'[p] = "work" /\ workRuns'[p] = 1)
            /\ (pc'[p] = "elapsed" /\ pc[p] # "elapsed") =>
                  (pc[p] = "obtain" /\ store[KeyOf(p)] # Absent /\ now' = now)
            /\ (IsAcquisitionError(outcome'[p]) /\ ~IsAcquisitionError(outcome[p])) =>
                  /\ pc[p] = "elapsed"
                  /\ now - start[p] > call[p].options.maxWaitTime
            /\ pc[p] = "elapsed" => now' = now]_vars
    /\ \A p \in Procs :
          (pc[p] \in {"sleep", "obtain"} /\ store[KeyOf(p)] = Absent) ~>
              \/ pc[p] = "work"
              \/ \E q \in Procs \ {p} :
                    store[KeyOf(p)] # Absent /\ Value(store[KeyOf(p)]) = lockerId[q]

\* a loop with timeBetweenAttempts = 0 found the key held, slept and acquired
\* it at a later attempt
C12_Witness ==
    \E p \in Procs :
        /\ pc[p] = "work" /\ attempts[p] >= 2 /\ lost[p] = "no"
        /\ call[p].options.timeBetweenAttempts = <<0>>
        /\ call[p].options.maxWaitTime >= 0

\* C13: a record is created only by a successful attempt and expires the
\* mutex's timeout after it; no step changes a record other than by removing
\* it, so no record is in the store at or after its expiry, whatever its
\* holder does; an attempt on the key after that acquires the lock.
C13_RecordExpiresAfterTimeout ==
    /\ [](\A k \in Keys :
            store[k] # Absent =>
                /\ now < ExpireAt(store[k])
                /\ \E p \in Procs :
                      /\ KeyOf(p) = k /\ lockerId[p] = Value(store[k])
                      /\ ExpireAt(store[k]) - now <= mutex[p].timeout)
    /\ [][/\ \A k \in Keys :
             /\ (store[k] # Absent /\ store'[k] # Absent) => store'[k] = store[k]
             /\ (store[k] = Absent /\ store'[k] # Absent) =>
                   \E p \in Procs :
                       /\ pc[p] = "obtain" /\ pc'[p] = "work" /\ KeyOf(p) = k
                       /\ store'[k] = <<lockerId'[p], now + mutex[p].timeout>>
          /\ \A p \in Procs :
               (pc[p] = "obtain" /\ pc'[p] # "obtain" /\ outcome'[p] # StoreError
                   /\ store[KeyOf(p)] = Absent) => pc'[p] = "work"
          /\ \A p \in Procs :
               (lost'[p] = "expired" /\ lost[p] # "expired") =>
                   /\ now' = ExpireAt(store[KeyOf(p)])
                   /\ store'[KeyOf(p)] = Absent /\ pc'[p] = pc[p]]_vars

\* p is still in its work after its record expired, and q acquired the key
C13_Witness ==
    \E p, q \in Procs :
        /\ p # q /\ KeyOf(p) = KeyOf(q)
        /\ pc[p] = "work" /\ lost[p] = "expired" /\ now >= mutex[p].timeout
        /\ pc[q] = "work" /\ lost[q] = "no"
        /\ store[KeyOf(q)] = <<lockerId[q], now + mutex[q].timeout>>

\* C14: forceResetLock removes the record of the mutex's key whatever token it
\* holds and changes nothing else: right after it the record is absent, its
\* holder is still where it was, and an attempt on the absent key acquires the
\* lock.
C14_ForceResetRemovesRecord ==
    [][/\ \A q \in Procs :
            (lost'[q] = "reset" /\ lost[q] # "reset") =>
                /\ store[KeyOf(q)] # Absent /\ Value(store[KeyOf(q)]) = lockerId[q]
                /\ store' = [store EXCEPT ![KeyOf(q)] = Absent]
                /\ pc'[q] = pc[q] /\ pc[q] \in {"work", "release"}
                /\ <<now, mutex, pc, call, lockerId, outcome, released>>' =
                      <<now, mutex, pc, call, lockerId, outcome, released>>
       /\ \A p \in Procs :
            (pc[p] = "obtain" /\ pc'[p] # "obtain" /\ outcome'[p] # StoreError
                /\ \E q \in Procs \ {p} : lost[q] = "reset" /\ pc[q] = "work"
                /\ store[KeyOf(p)] = Absent) =>
                    /\ pc'[p] = "work"
                    /\ store'[KeyOf(p)] = <<lockerId'[p], now + mutex[p].timeout>>]_vars

\* q is still in its work after its record was force-reset, and p acquired
\* the key in the same millisecond
C14_Witness ==
    \E p, q \in Procs :
        /\ p # q /\ KeyOf(p) = KeyOf(q)
        /\ pc[q] = "work" /\ lost[q] = "reset"
        /\ pc[p] = "work" /\ lost[p] = "no" /\ now = 0
        /\ store[KeyOf(p)] # Absent /\ Value(store[KeyOf(p)]) = lockerId[p]

\* C15: the step at which a call stops waiting for its SET either ran the
\* command or settles the call with the store's failure; a call settled so
\* during acquisition holds no token, never ran its work, released nothing,
\* left the store as it was and makes no further attempt; a call is refused
\* (acquisition error or retry) only by a record that is present.
C15_StoreFailureEndsCall ==
    [][\A p \in Procs :
          /\ (pc[p] = "obtain" /\ outcome'[p] = StoreError) =>
                /\ pc'[p] = "done" /\ store' = store
                /\ lockerId'[p] = null /\ workRuns'[p] = 0 /\ released'[p] = <<>>
                /\ ~IsAcquisitionError(outcome'[p])
          /\ (pc[p] = "obtain" /\ pc'[p] # "obtain" /\ store[KeyOf(p)] = Absent) =>
                \/ pc'[p] = "work"
                \/ pc'[p] = "done" /\ outcome'[p] = StoreError
          /\ (pc[p] = "obtain" /\ pc'[p] \in {"elapsed", "sleep"}) =>
                store[KeyOf(p)] # Absent
          /\ (pc[p] = "done" /\ outcome[p] = StoreError /\ lockerId[p] = null) =>
                /\ pc'[p] = "done" /\ outcome'[p] = StoreError
                /\ attempts'[p] = attempts[p] /\ workRuns'[p] = 0
                /\ lockerId'[p] = null]_vars

\* a retry loop was refused once and its second SET was rejected by the
\* store: the call ended with the store's failure after two attempts
C15_Witness ==
    \E p \in Procs :
        /\ pc[p] = "done" /\ outcome[p] = StoreError /\ lockerId[p] = null
        /\ call[p].kind = "withOptimisticLock" /\ attempts[p] = 2
        /\ workRuns[p] = 0

\* C16: a call that ends its release settles with the work's outcome or with
\* the store's failure; when the store did not run the release (the caller's
\* own record is still there afterwards) the call settles with the store's
\* failure, whether the work had returned or failed, and a release that
\* failed changed nothing in the store.
C16_ReleaseFailurePropagates ==
    [][\A p \in Procs :
          (pc[p] = "release" /\ pc'[p] # "release") =>
              /\ pc'[p] = "done"
              /\ outcome'[p] \in {workOut[p], StoreError}
              /\ (store'[KeyOf(p)] # Absent /\ Value(store'[KeyOf(p)]) = lockerId[p]) =>
                    outcome'[p] = StoreError
              /\ outcome'[p] = StoreError => store' = store]_vars

\* the work failed, the store rejected the release: the call ended with the
\* store's failure and the record is still in the store
C16_Witness ==
    \E p \in Procs :
        /\ pc[p] = "done" /\ outcome[p] = StoreError
        /\ workOut[p].type = "WorkError" /\ released[p] = <<lockerId[p]>>
        /\ store[KeyOf(p)] # Absent /\ Value(store[KeyOf(p)]) = lockerId[p]

\* C17: a release that finds its record gone (expired or force-reset) or the
\* key under another token leaves the store as it was and raises no error of
\* its own: unless the store rejected the call, the wrapper settles with the
\* work's result or failure.
C17_StaleReleaseCompletes ==
    [][\A p \in Procs :
          (pc[p] = "release" /\ pc'[p] # "release"
              /\ (store[KeyOf(p)] = Absent \/ Value(store[KeyOf(p)]) # lockerId[p])) =>
                  /\ lost[p] \in {"expired", "reset"}
                  /\ store' = store
                  /\ pc'[p] = "done"
                  /\ outcome'[p] # StoreError =>
                        /\ outcome'[p] = workOut[p]
                        /\ workOut[p].type \in {"return", "WorkError"}]_vars

\* p's record was force-reset during its work, q took the key; p's work
\* failed, its release found q's token and p settled with the work's failure
\* while q still holds the record
C17_Witness ==
    \E p, q \in Procs :
        /\ p # q /\ KeyOf(p) = KeyOf(q)
        /\ pc[p] = "done" /\ lost[p] = "reset" /\ released[p] = <<lockerId[p]>>
        /\ outcome[p] = workOut[p] /\ outcome[p].type = "WorkError"
        /\ pc[q] = "work" /\ lost[q] = "no"
        /\ store[KeyOf(q)] # Absent /\ Value(store[KeyOf(q)]) = lockerId[q]

\* the attempts made so far, as pairs of process and attempt number
Attempts == {<<p, i>> : p \in Procs, i \in 1..MaxTime + 2}
Made == {a \in Attempts : a[2] <= Len(offered[a[1]])}

\* C18: no two acquisition attempts, of one retry loop or of different
\* processes, offer the same token; the value of a record is the token of
\* exactly one attempt, which is the attempt that returned it to its call; a
\* call passes to release the token of its own successful attempt, its last.
C18_TokensUnique ==
    /\ \A a, b \in Made : offered[a[1]][a[2]] = offered[b[1]][b[2]] => a = b
    /\ \A p \in Procs : Len(offered[p]) = attempts[p] /\ attempts[p] <= MaxTime + 2
    /\ \A k \in Keys :
          store[k] # Absent =>
              \E a \in Made :
                  /\ offered[a[1]][a[2]] = Value(store[k])
                  /\ lockerId[a[1]] = Value(store[k])
                  /\ \A b \in Made : offered[b[1]][b[2]] = Value(store[k]) => b = a
    /\ \A p \in Procs :
          /\ lockerId[p] # null =>
                (attempts[p] >= 1 /\ lockerId[p] = offered[p][attempts[p]])
          /\ \A i \in 1..Len(released[p]) : released[p][i] = lockerId[p] /\ lockerId[p] # null

\* a retry loop acquired at its second attempt, after another process, and
\* each of the three attempts offered its own token
C18_Witness ==
    \E p, q \in Procs :
        /\ p # q /\ Len(offered[p]) = 2 /\ offered[p][1] # offered[p][2]
        /\ lockerId[p] = offered[p][2] /\ released[p] = <<offered[p][2]>>
        /\ Len(offered[q]) = 1 /\ lockerId[q] = offered[q][1]
        /\ released[q] = <<lockerId[q]>>

\* C19: a refused attempt, and every step of a retry loop between two
\* attempts, leaves every record as it was, value and expiry; the record of
\* a holder is changed by no step other than its removal; the expiry a
\* successful attempt sets is the mutex's timeout whatever options the call
\* was given.
C19_WaitersLeaveRecord ==
    [][\A p \in Procs :
          /\ (pc[p] = "obtain" /\ pc'[p] # "obtain" /\ pc'[p] # "work") => store' = store
          /\ (pc[p] \in {"elapsed", "sleep"} /\ pc'[p] # pc[p]) => store' = store
          /\ (pc[p] \in {"work", "release"} /\ lost[p] = "no" /\ pc'[p] = pc[p]) =>
                store'[KeyOf(p)] \in {store[KeyOf(p)], Absent}
          /\ (pc[p] = "obtain" /\ pc'[p] = "work") =>
                /\ ExpireAt(store'[KeyOf(p)]) - now = mutex[p].timeout
                /\ \A k \in Keys \ {KeyOf(p)} : store'[k] = store[k]]_vars

\* a retry loop was refused twice, a millisecond apart, while the holder's
\* record kept its value and its expiry went on running down
C19_Witness ==
    \E p, q \in Procs :
        /\ p # q /\ KeyOf(p) = KeyOf(q)
        /\ pc[q] \in {"elapsed", "sleep"} /\ attempts[q] = 2
        /\ pc[p] = "work" /\ lost[p] = "no"
        /\ store[KeyOf(p)] # Absent /\ Value(store[KeyOf(p)]) = lockerId[p]
        /\ ExpireAt(store[KeyOf(p)]) - now < mutex[p].timeout

\* ---- mutexes of different names and ids -----------------------------------

\* Every process constructs its mutex on a name and an id of its own choice.
InitKeys ==
    /\ InitCalls
    /\ store = [k \in Keys |-> Absent]
    /\ mutex \in [Procs -> [name : Names, id : Ids, timeout : 1..MaxTimeout]]

NextKeys ==
    \/ \E p \in Procs : CallWithLock(p)
    \/ \E p \in Procs : ObtainLock(p)
    \/ \E p \in Procs : FinishWork(p)
    \/ \E p \in Procs : ReleaseLock(p)
    \/ \E p \in Procs : ForceResetLock(p)
    \/ Pass

SpecKeys == InitKeys /\ [][NextKeys]_vars

SameMutex(p, q) == mutex[p].name = mutex[q].name /\ mutex[p].id = mutex[q].id

\* C20: a step of one mutex changes only the record at a key no mutex of
\* another (name, id) pair uses: holding one never makes an attempt on the
\* other fail, and releasing or force-resetting one never removes the other's
\* record.
C20_DistinctMutexesIndependent ==
    [][\A p, q \in Procs :
          ~SameMutex(p, q) =>
              /\ (pc[q] = "obtain" /\ IsAcquisitionError(outcome'[q])) =>
                    ~(store[KeyOf(q)] # Absent /\ Value(store[KeyOf(q)]) = lockerId[p])
              /\ (pc[p] \in {"work", "release"} /\ lost[p] = "no"
                    /\ store'[KeyOf(p)] # store[KeyOf(p)]) =>
                        pc'[q] = pc[q]
              /\ (lost'[p] = "reset" /\ lost[p] # "reset") => KeyOf(p) # KeyOf(q)]_vars

====
